---- MODULE Spec2Model ----
(***************************************************************************)
(* A model of go-caskdb's DiskStore (src/disk_store.go): one log file, the *)
(* in-memory key directory and the write cursor, driven by NewDiskStore,   *)
(* Set, Get and Close.  Bytes are numbers 0..255, strings and files are    *)
(* sequences of bytes.  The file is the operating system's regular file   *)
(* opened by os.Create: it has ONE position shared by Seek, Read and Write.*)
(***************************************************************************)
EXTENDS Integers, Sequences, FiniteSets, TLC

(***************************************************************************)
(* Bounds.                                                                 *)
(***************************************************************************)
\* Number of Set calls on one store instance.
MaxSets == 3
\* Width of the unsigned cursor/KeyEntry fields of the model (uint32 in the
\* source, scaled down so that wrap-around is reachable).
OffsetBits == 5

\* Number of Set calls of the run of Sets with pairwise distinct keys (SpecSeq).
MaxSeqSets == 4

\* Number of Set calls on one store instance in the life-cycle runs (SpecLife).
MaxLifeSets == 2

\* Longest key and value of the codec runs (SpecCodec).
MaxStrLen == 2

\* Number of Set calls on a MemoryStore (SpecMem).
MaxMemSets == 3

\* Keys and values the callers pass: byte strings ("a", "b" / "", "1").
Keys == {<<97>>, <<98>>}
Values == {<<>>, <<49>>}
\* Keys of the run of Sets with pairwise distinct keys ("a" .. "d").
SeqKeys == {<<97>>, <<98>>, <<99>>, <<100>>}
AllKeys == Keys \cup SeqKeys
\* Values of uint32(time.Now().Unix()).
Timestamps == {1}

VARIABLES
    file,       \* content of the log file on disk (sequence of bytes)
    fileState,  \* d.file: "open", "closed" (after Close) or "nil" (os.Create failed)
    filePos,    \* the file position of the open file description
    keyDir,     \* d.keyDir: key -> KeyEntry
    offset,     \* d.offset: the write cursor
    ret,        \* what the last call gave its caller
    lastOp,     \* the last call: its name, key and the I/O failure injected into it
    hist,       \* the Set calls of this store instance, in call order
    durable,    \* key -> the value of the most recent Set of the key on this path
    data        \* m.data of a MemoryStore: key -> KeyEntry

vars == <<file, fileState, filePos, keyDir, offset, ret, lastOp, hist, durable, data>>

NoValue == <<256>>

(***************************************************************************)
(* Helpers.                                                                *)
(***************************************************************************)
Min(a, b) == IF a < b THEN a ELSE b

Max(a, b) == IF a > b THEN a ELSE b

\* Conversion to the unsigned integer type of the cursor and of KeyEntry.
UInt(x) == x % (2 ^ OffsetBits)

\* binary.LittleEndian.PutUint32
PutUint32(n) ==
    << n % 256, (n \div 256) % 256, (n \div 65536) % 256, (n \div 16777216) % 256 >>

\* binary.LittleEndian.Uint32 of the four bytes of b that follow index i.
Uint32At(b, i) ==
    b[i + 1] + 256 * b[i + 2] + 65536 * b[i + 3] + 16777216 * b[i + 4]

\* Size of the record header: three 32-bit unsigned integers.
headerSize == 12

\* encodeKV with the value laid out before the key (mutant).
encodeKVValueFirst(ts, key, value) ==
    [ size  |-> headerSize + Len(key) + Len(value),
      bytes |-> PutUint32(ts) \o PutUint32(Len(key)) \o PutUint32(Len(value))
                \o value \o key ]

\* encodeKV: header (timestamp, key length, value length), key bytes, value bytes.
encodeKV(ts, key, value) ==
    [ size  |-> headerSize + Len(key) + Len(value),
      bytes |-> PutUint32(ts) \o PutUint32(Len(key)) \o PutUint32(Len(value))
                \o key \o value ]

\* decodeKV: the three header fields, then the key and the value sliced by the
\* declared lengths; a slice outside the buffer is a run-time fault.
decodeKV(buf) ==
    IF Len(buf) < headerSize
    THEN [ok |-> FALSE]
    ELSE LET ks == Uint32At(buf, 4)
             vs == Uint32At(buf, 8)
         IN IF headerSize + ks + vs > Len(buf)
            THEN [ok |-> FALSE]
            ELSE [ ok        |-> TRUE,
                   timestamp |-> Uint32At(buf, 0),
                   key       |-> SubSeq(buf, headerSize + 1, headerSize + ks),
                   value     |-> SubSeq(buf, headerSize + ks + 1, headerSize + ks + vs) ]

\* d.offset += uint32(totalSize) + 1, without the "+ 1" (mutant).
NextOffsetNoGap(off, totalSize) == UInt(off + UInt(totalSize))

\* d.offset += uint32(totalSize) + 1
NextOffset(off, totalSize) == UInt(off + UInt(totalSize) + 1)

NewKeyEntry(ts, position, size) ==
    [Timestamp |-> ts, Position |-> position, TotalSize |-> size]

\* dir[key] = entry that drops the entries of the other keys (mutant).
UpsertOnly(dir, key, entry) == [ k \in {key} |-> entry ]

\* dir[key] = entry on a Go map: the entry of key is created or replaced.
Upsert(dir, key, entry) ==
    [ k \in DOMAIN dir \cup {key} |-> IF k = key THEN entry ELSE dir[k] ]

\* write(2) of bytes at position pos of a regular file: overwrites what is
\* there, extends the file, and zero-fills a gap between the old end and pos.
WriteAt(f, pos, bytes) ==
    [ i \in 1..Max(Len(f), pos + Len(bytes)) |->
        IF i > pos /\ i <= pos + Len(bytes) THEN bytes[i - pos]
        ELSE IF i <= Len(f) THEN f[i]
        ELSE 0 ]

\* read(2) into a zeroed buffer of size bytes at position pos: the number of
\* bytes read and the buffer.
ReadAt(f, pos, size) ==
    LET n == IF pos >= Len(f) THEN 0 ELSE Min(size, Len(f) - pos)
    IN [ n   |-> n,
         buf |-> [ i \in 1..size |-> IF i <= n THEN f[pos + i] ELSE 0 ] ]

(***************************************************************************)
(* Initial state: the store NewDiskStore returns.                          *)
(***************************************************************************)
Init ==
    /\ file = <<>>
    /\ fileState \in {"open", "nil"}
    /\ filePos = 0
    /\ keyDir = << >>
    /\ offset = 0
    /\ ret = [kind |-> "store", err |-> fileState = "nil"]
    /\ lastOp = [op |-> "NewDiskStore", key |-> <<>>, io |-> IF fileState = "nil" THEN "createfail" ELSE "ok"]
    /\ hist = <<>>
    /\ durable = [k \in AllKeys |-> NoValue]
    /\ data = << >>

(***************************************************************************)
(* NewDiskStore on the same path, by a caller whose earlier store is no    *)
(* longer open.  os.Create truncates the file; when it fails the file is   *)
(* left alone and the store holds a nil file.                              *)
(***************************************************************************)
\* NewDiskStore returning a nil error whatever os.Create returned (mutant).
NewDiskStoreDropErr(createOK) ==
    /\ fileState # "open"
    /\ file' = IF createOK THEN <<>> ELSE file
    /\ fileState' = IF createOK THEN "open" ELSE "nil"
    /\ filePos' = 0
    /\ keyDir' = << >>
    /\ offset' = 0
    /\ ret' = [kind |-> "store", err |-> FALSE]
    /\ lastOp' = [op |-> "NewDiskStore", key |-> <<>>, io |-> IF createOK THEN "ok" ELSE "createfail"]
    /\ hist' = <<>>
    /\ UNCHANGED <<durable, data>>

\* NewDiskStore opening the file without truncating it (mutant).
NewDiskStoreNoTrunc(createOK) ==
    /\ fileState # "open"
    /\ file' = file
    /\ fileState' = IF createOK THEN "open" ELSE "nil"
    /\ filePos' = 0
    /\ keyDir' = << >>
    /\ offset' = 0
    /\ ret' = [kind |-> "store", err |-> ~createOK]
    /\ lastOp' = [op |-> "NewDiskStore", key |-> <<>>, io |-> IF createOK THEN "ok" ELSE "createfail"]
    /\ hist' = <<>>
    /\ UNCHANGED <<durable, data>>

NewDiskStore(createOK) ==
    /\ fileState # "open"
    /\ file' = IF createOK THEN <<>> ELSE file
    /\ fileState' = IF createOK THEN "open" ELSE "nil"
    /\ filePos' = 0
    /\ keyDir' = << >>
    /\ offset' = 0
    /\ ret' = [kind |-> "store", err |-> ~createOK]
    /\ lastOp' = [op |-> "NewDiskStore", key |-> <<>>, io |-> IF createOK THEN "ok" ELSE "createfail"]
    /\ hist' = <<>>
    /\ UNCHANGED <<durable, data>>

(***************************************************************************)
(* Get.                                                                    *)
(***************************************************************************)
\* The outcome of Get(key) and the file position it leaves, given whether the
\* Seek and the Read system calls succeed.
GetResult(key, seekOK, readOK) ==
    IF key \notin DOMAIN keyDir
    THEN [ret |-> [kind |-> "value", value |-> <<>>], pos |-> filePos, io |-> "ok"]
    ELSE LET keyInfo == keyDir[key]
             rd == ReadAt(file, keyInfo.Position, keyInfo.TotalSize)
             kv == decodeKV(rd.buf)
         IN IF fileState # "open" \/ ~seekOK
            THEN [ret |-> [kind |-> "panic", msg |-> "Get() error during Seek"],
                  pos |-> filePos,
                  io |-> IF fileState # "open" THEN "ok" ELSE "seekfail"]
            ELSE IF ~readOK
            THEN [ret |-> [kind |-> "panic", msg |-> "Get() error during Read"],
                  pos |-> keyInfo.Position, io |-> "readfail"]
            ELSE IF rd.n = 0 /\ keyInfo.TotalSize > 0
            THEN [ret |-> [kind |-> "panic", msg |-> "Get() error during Read"],
                  pos |-> keyInfo.Position, io |-> "ok"]
            ELSE IF ~kv.ok
            THEN [ret |-> [kind |-> "panic", msg |-> "decodeKV"],
                  pos |-> keyInfo.Position + rd.n, io |-> "ok"]
            ELSE [ret |-> [kind |-> "value", value |-> kv.value],
                  pos |-> keyInfo.Position + rd.n, io |-> "ok"]

Get(key, seekOK, readOK) ==
    LET r == GetResult(key, seekOK, readOK)
    IN /\ ret' = r.ret
       /\ filePos' = r.pos
       /\ lastOp' = [op |-> "Get", key |-> key, io |-> r.io]
       /\ UNCHANGED <<file, fileState, keyDir, offset, hist, durable, data>>

(***************************************************************************)
(* Set.                                                                    *)
(***************************************************************************)
Set(key, value, ts, writeOK) ==
    LET enc == encodeKV(ts, key, value)
        written == fileState = "open" /\ writeOK
    IN /\ keyDir' = Upsert(keyDir, key, NewKeyEntry(ts, offset, UInt(enc.size)))
       /\ offset' = NextOffset(offset, enc.size)
       /\ file' = IF written THEN WriteAt(file, filePos, enc.bytes) ELSE file
       /\ filePos' = IF written THEN filePos + Len(enc.bytes) ELSE filePos
       /\ ret' = [kind |-> "none"]
       /\ lastOp' = [op |-> "Set", key |-> key,
                     io |-> IF fileState = "open" /\ ~writeOK THEN "writefail" ELSE "ok"]
       /\ hist' = Append(hist, [ key |-> key, value |-> value, ts |-> ts,
                                 entry |-> NewKeyEntry(ts, offset, UInt(enc.size)),
                                 at |-> filePos, written |-> written ])
       /\ durable' = [durable EXCEPT ![key] = value]
       /\ UNCHANGED <<fileState, data>>

(***************************************************************************)
(* Close.                                                                  *)
(***************************************************************************)
\* Close returning true whatever file.Close returned (mutant).
CloseAlwaysTrue(closeOK) ==
    /\ ret' = [kind |-> "bool", ok |-> TRUE]
    /\ fileState' = IF fileState = "open" THEN "closed" ELSE fileState
    /\ lastOp' = [op |-> "Close", key |-> <<>>,
                  io |-> IF fileState = "open" /\ ~closeOK THEN "closefail" ELSE "ok"]
    /\ UNCHANGED <<file, filePos, keyDir, offset, hist, durable, data>>

Close(closeOK) ==
    /\ ret' = [kind |-> "bool", ok |-> fileState = "open" /\ closeOK]
    /\ fileState' = IF fileState = "open" THEN "closed" ELSE fileState
    /\ lastOp' = [op |-> "Close", key |-> <<>>,
                  io |-> IF fileState = "open" /\ ~closeOK THEN "closefail" ELSE "ok"]
    /\ UNCHANGED <<file, filePos, keyDir, offset, hist, durable, data>>

Next ==
    \/ \E createOK \in BOOLEAN : NewDiskStore(createOK)
    \/ \E key \in Keys, seekOK \in BOOLEAN, readOK \in BOOLEAN : Get(key, seekOK, readOK)
    \/ /\ Len(hist) < MaxSets
       /\ \E key \in Keys, value \in Values, ts \in Timestamps, writeOK \in BOOLEAN :
             Set(key, value, ts, writeOK)
    \/ \E closeOK \in BOOLEAN : Close(closeOK)

Spec == Init /\ [][Next]_vars

(***************************************************************************)
(* The same calls when no system call fails: the store is created, and    *)
(* every Seek, Read, Write and Close succeeds.                             *)
(***************************************************************************)
InitOK == Init /\ fileState = "open"

NextOK ==
    \/ NewDiskStore(TRUE)
    \/ \E key \in Keys : Get(key, TRUE, TRUE)
    \/ /\ Len(hist) < MaxSets
       /\ \E key \in Keys, value \in Values, ts \in Timestamps : Set(key, value, ts, TRUE)
    \/ Close(TRUE)

SpecOK == InitOK /\ [][NextOK]_vars

(***************************************************************************)
(* A fresh store and N sequential Set calls with pairwise distinct keys.   *)
(***************************************************************************)
HistKeys == { hist[i].key : i \in 1..Len(hist) }

NextSeq ==
    /\ Len(hist) < MaxSeqSets
    /\ \E key \in SeqKeys \ HistKeys, value \in Values, ts \in Timestamps :
          Set(key, value, ts, TRUE)

SpecSeq == InitOK /\ [][NextSeq]_vars

(***************************************************************************)
(* The life cycle of a store with failing system calls: construction,      *)
(* Close and construction again, with a few Sets and Gets in between.      *)
(***************************************************************************)
NextLife ==
    \/ \E createOK \in BOOLEAN : NewDiskStore(createOK)
    \/ \E key \in Keys, seekOK \in BOOLEAN, readOK \in BOOLEAN : Get(key, seekOK, readOK)
    \/ /\ Len(hist) < MaxLifeSets
       /\ \E key \in Keys, ts \in Timestamps, writeOK \in BOOLEAN :
             Set(key, <<49>>, ts, writeOK)
    \/ \E closeOK \in BOOLEAN : Close(closeOK)

SpecLife == Init /\ [][NextLife]_vars

(***************************************************************************)
(* The record codec on its own: a timestamp, a key and a value are encoded *)
(* and the bytes decoded again.  lastOp holds the input, ret the result.   *)
(***************************************************************************)
\* Timestamps up to 2^31 - 1, the largest number of the model checker.
CodecTimestamps == {0, 1, 256, 2147483647}
CodecBytes == {0, 12, 255}
CodecStrings == UNION { [1..n -> CodecBytes] : n \in 0..MaxStrLen }

InitCodec ==
    /\ file = <<>>
    /\ fileState = "open"
    /\ filePos = 0
    /\ keyDir = << >>
    /\ offset = 0
    /\ hist = <<>>
    /\ durable = [k \in AllKeys |-> NoValue]
    /\ data = << >>
    /\ ret = [kind |-> "none"]
    /\ \E ts \in CodecTimestamps, key \in CodecStrings, value \in CodecStrings :
          lastOp = [op |-> "codec", key |-> key, io |-> "ok", ts |-> ts, value |-> value]

Encode ==
    /\ ret.kind = "none"
    /\ ret' = [kind |-> "encoded", enc |-> encodeKV(lastOp.ts, lastOp.key, lastOp.value)]
    /\ UNCHANGED <<file, fileState, filePos, keyDir, offset, lastOp, hist, durable, data>>

Decode ==
    /\ ret.kind = "encoded"
    /\ ret' = [kind |-> "decoded", kv |-> decodeKV(ret.enc.bytes)]
    /\ UNCHANGED <<file, fileState, filePos, keyDir, offset, lastOp, hist, durable, data>>

NextCodec == Encode \/ Decode

SpecCodec == InitCodec /\ [][NextCodec]_vars

(***************************************************************************)
(* MemoryStore (src/memory_store.go): a bare map from key to KeyEntry.     *)
(* hist holds the Set calls made, in call order.                           *)
(***************************************************************************)
\* The zero value of KeyEntry, which a Go map gives for a key it does not hold.
ZeroKeyEntry == NewKeyEntry(0, 0, 0)

\* Entries the callers pass.
KeyEntries == {NewKeyEntry(0, 0, 0), NewKeyEntry(1, 0, 13), NewKeyEntry(1, 14, 13)}

NewMemoryStore ==
    /\ file = <<>>
    /\ fileState = "nil"
    /\ filePos = 0
    /\ keyDir = << >>
    /\ offset = 0
    /\ hist = <<>>
    /\ durable = [k \in AllKeys |-> NoValue]
    /\ data = << >>
    /\ ret = [kind |-> "store", err |-> FALSE]
    /\ lastOp = [op |-> "NewMemoryStore", key |-> <<>>, io |-> "ok"]

MemoryGet(key) ==
    /\ ret' = [kind |-> "entry",
               entry |-> IF key \in DOMAIN data THEN data[key] ELSE ZeroKeyEntry]
    /\ lastOp' = [op |-> "MemoryGet", key |-> key, io |-> "ok"]
    /\ UNCHANGED <<file, fileState, filePos, keyDir, offset, hist, durable, data>>

MemorySet(key, value) ==
    /\ data' = Upsert(data, key, value)
    /\ ret' = [kind |-> "none"]
    /\ lastOp' = [op |-> "MemorySet", key |-> key, io |-> "ok"]
    /\ hist' = Append(hist, [key |-> key, entry |-> value])
    /\ UNCHANGED <<file, fileState, filePos, keyDir, offset, durable>>

MemoryClose ==
    /\ ret' = [kind |-> "bool", ok |-> TRUE]
    /\ lastOp' = [op |-> "MemoryClose", key |-> <<>>, io |-> "ok"]
    /\ UNCHANGED <<file, fileState, filePos, keyDir, offset, hist, durable, data>>

NextMem ==
    \/ \E key \in Keys : MemoryGet(key)
    \/ /\ Len(hist) < MaxMemSets
       /\ \E key \in Keys, value \in KeyEntries : MemorySet(key, value)
    \/ MemoryClose

SpecMem == NewMemoryStore /\ [][NextMem]_vars

(***************************************************************************)
(* Notions the properties use.                                             *)
(***************************************************************************)
\* What Get gives its caller when it returns the string value.
Returned(value) == [kind |-> "value", value |-> value]

\* The last Set of key on this store instance (key is in HistKeys).
LastRec(key) ==
    hist[CHOOSE i \in 1..Len(hist) :
            /\ hist[i].key = key
            /\ \A j \in (i + 1)..Len(hist) : hist[j].key # key]

\* The records of the first n Set calls, concatenated in call order.
RECURSIVE RecordsOf(_)
RecordsOf(n) ==
    IF n = 0 THEN <<>>
    ELSE RecordsOf(n - 1) \o encodeKV(hist[n].ts, hist[n].key, hist[n].value).bytes

\* The write cursor after the first n Set calls, as an unbounded integer.
RECURSIVE CursorAfter(_)
CursorAfter(n) ==
    IF n = 0 THEN 0
    ELSE CursorAfter(n - 1) + encodeKV(hist[n].ts, hist[n].key, hist[n].value).size + 1

DistinctKeys == Cardinality(HistKeys) = Len(hist)

(***************************************************************************)
(* C1..C10                                                                 *)
(***************************************************************************)
\* C1 (as claimed): on an open store where no system call fails, a Get of a key
\* that has been Set returns the value of the most recent Set of that key.
C1_LastWriteWins ==
    (fileState = "open" /\ lastOp.op = "Get" /\ lastOp.key \in DOMAIN keyDir)
        => ret = Returned(durable[lastOp.key])

\* C2 (as claimed): the Position stored for a key is the file offset at which
\* the key's most recent record was physically written.
C2_PositionAccuracy ==
    fileState = "open"
        => \A k \in DOMAIN keyDir : keyDir[k].Position = LastRec(k).at

\* C3 (as claimed): on an open store every key-directory entry lies inside the
\* log: Position + TotalSize <= length of the file.
C3_EntryInBounds ==
    fileState = "open"
        => \A k \in DOMAIN keyDir : keyDir[k].Position + keyDir[k].TotalSize <= Len(file)

\* C4 (as claimed): under any interleaving of Set and Get the log is the
\* contiguous concatenation, in call order, of all records written.
C4_AppendOnly ==
    fileState = "open" => file = RecordsOf(Len(hist))

\* C5 (as claimed): the outcome of Get for a key never Set differs from the
\* outcome of Get for a key whose stored value is the empty string.
C5_DistinctAbsence ==
    fileState = "open"
        => \A k \in Keys \ DOMAIN keyDir : \A e \in DOMAIN keyDir :
              durable[e] = <<>>
                  => GetResult(k, TRUE, TRUE).ret # GetResult(e, TRUE, TRUE).ret

\* C6 (as claimed): a Get or Set on a closed store returns a closed-store
\* error, does not panic, and changes neither key directory, cursor nor log.
C6_ClosedStoreSafety ==
    [][ (fileState = "closed" /\ lastOp'.op \in {"Get", "Set"})
            => /\ ret'.kind = "closedStoreError"
               /\ keyDir' = keyDir
               /\ offset' = offset
               /\ file' = file ]_vars

\* C7 (as claimed): after Set(x, y); Close(); NewDiskStore(same path), Get(x)
\* returns y.
C7_ReopenDurability ==
    ( /\ fileState = "open"
      /\ lastOp.op = "Get"
      /\ lastOp.key \notin DOMAIN keyDir
      /\ durable[lastOp.key] # NoValue )
        => ret = Returned(durable[lastOp.key])

\* C8 (as claimed): a Set whose file write fails reports the failure and
\* leaves key directory and write cursor as they were.
C8_SetFailurePropagates ==
    [][ (lastOp'.op = "Set" /\ lastOp'.io = "writefail")
            => /\ ret'.kind = "ioError"
               /\ keyDir' = keyDir
               /\ offset' = offset ]_vars

\* C9 (as claimed): a Get whose Seek or Read fails returns an I/O error to the
\* caller, does not panic, and leaves the store unchanged.
C9_GetFailureRecoverable ==
    [][ (lastOp'.op = "Get" /\ lastOp'.io \in {"seekfail", "readfail"})
            => /\ ret'.kind = "ioError"
               /\ keyDir' = keyDir
               /\ offset' = offset
               /\ file' = file ]_vars

\* C10 (as claimed): after N sequential Sets with pairwise distinct keys, the
\* position stored for the i-th key is strictly greater than position +
\* totalSize of the (i-1)-th record, for every i > 1.
C10_MonotonicPlacement ==
    DistinctKeys
        => \A i \in 2..Len(hist) :
              keyDir[hist[i].key].Position
                  > keyDir[hist[i - 1].key].Position + keyDir[hist[i - 1].key].TotalSize

\* C10 below the wrap-around: the same holds for every i > 1 whose record
\* starts before the write cursor has wrapped around (the cursor after i-1
\* Sets, the sum of their totalSize + 1, is below 2^OffsetBits).
C10_MonotonicPlacementNoWrap ==
    DistinctKeys
        => \A i \in 2..Len(hist) :
              CursorAfter(i - 1) < 2 ^ OffsetBits
                  => keyDir[hist[i].key].Position
                        > keyDir[hist[i - 1].key].Position
                          + keyDir[hist[i - 1].key].TotalSize

\* C10 below the wrap-around, a case of it: three Sets with distinct keys, the third placed before any wrap.
C10_Witness ==
    /\ Len(hist) = 3
    /\ DistinctKeys
    /\ CursorAfter(2) < 2 ^ OffsetBits
    /\ keyDir[hist[3].key].Position = CursorAfter(2)

C12_CodecRoundTrip ==
    /\ ret.kind = "encoded"
          => /\ ret.enc.size = Len(ret.enc.bytes)
             /\ ret.enc.size = headerSize + Len(lastOp.key) + Len(lastOp.value)
    /\ ret.kind = "decoded"
          => ret.kv = [ ok |-> TRUE, timestamp |-> lastOp.ts,
                        key |-> lastOp.key, value |-> lastOp.value ]

\* C12 witness: an empty key and a value that starts like a header field were
\* encoded with the largest timestamp and decoded.
C12_Witness ==
    /\ ret.kind = "decoded"
    /\ lastOp.ts = 2147483647
    /\ lastOp.key = <<>>
    /\ lastOp.value = <<12, 0>>
    /\ ret.kv.ok
    /\ ret.kv.value = <<12, 0>>

\* C13 (as claimed): on a key-directory hit Get obtains exactly TotalSize
\* bytes of the log starting at Position, never a short read, for every key
\* after any sequence of Sets.
C13_ExactLengthRead ==
    (fileState = "open" /\ lastOp.op = "Get" /\ lastOp.key \in DOMAIN keyDir)
        => LET keyInfo == keyDir[lastOp.key]
           IN ReadAt(file, keyInfo.Position, keyInfo.TotalSize).n = keyInfo.TotalSize

\* The encoded size of the record of the latest Set of this store instance.
LastSize == encodeKV(hist[Len(hist)].ts, hist[Len(hist)].key, hist[Len(hist)].value).size

C16_UpsertFrame ==
    [][ /\ lastOp'.op = "Set"
            => /\ DOMAIN keyDir' = DOMAIN keyDir \cup {lastOp'.key}
               /\ \A k \in DOMAIN keyDir \ {lastOp'.key} : keyDir'[k] = keyDir[k]
               /\ keyDir'[lastOp'.key].Position = offset
               /\ keyDir'[lastOp'.key].TotalSize = LastSize'
        /\ lastOp'.op = "Get" => keyDir' = keyDir
        /\ lastOp'.op # "NewDiskStore" => DOMAIN keyDir \subseteq DOMAIN keyDir' ]_vars

\* C16 witness: a key was Set, then another key, then the first key again: its
\* entry was replaced and the entry of the other key is still the one its Set
\* made.
C16_Witness ==
    /\ Len(hist) = 3
    /\ lastOp.op = "Set"
    /\ hist[3].key = hist[1].key
    /\ hist[2].key # hist[1].key
    /\ DOMAIN keyDir = {hist[1].key, hist[2].key}
    /\ keyDir[hist[2].key] = hist[2].entry
    /\ keyDir[hist[3].key] = hist[3].entry
    /\ hist[3].entry # hist[1].entry

\* C17 (as claimed): MemoryStore.Get returns the entry of the most recent Set
\* of the key; for a key never Set it returns an absent result that differs
\* from every entry that can be stored; Close returns true and leaves the
\* mapping unchanged.
C17_MemoryStoreLookup ==
    [][ /\ (lastOp'.op = "MemoryGet" /\ lastOp'.key \in HistKeys)
            => ret' = [kind |-> "entry", entry |-> LastRec(lastOp'.key).entry]
        /\ (lastOp'.op = "MemoryGet" /\ lastOp'.key \notin HistKeys)
            => \A e \in KeyEntries : ret' # [kind |-> "entry", entry |-> e]
        /\ lastOp'.op = "MemoryClose"
            => (ret' = [kind |-> "bool", ok |-> TRUE] /\ data' = data) ]_vars

\* C18: Close on an open store returns true exactly when releasing the file
\* succeeded and leaves the store closed; Close on a closed store returns
\* false and the store stays closed; Close changes neither the key directory
\* nor the write cursor.
C18_CloseLifecycle ==
    [][ lastOp'.op = "Close"
            => /\ ret'.kind = "bool"
               /\ fileState = "open"
                     => /\ ret'.ok = (lastOp'.io = "ok")
                        /\ fileState' = "closed"
               /\ fileState = "closed"
                     => /\ ret'.ok = FALSE
                        /\ fileState' = "closed"
               /\ keyDir' = keyDir
               /\ offset' = offset ]_vars

\* C18 witness: a store with an entry was closed, and Close was called again
\* and returned false.
C18_Witness ==
    /\ lastOp.op = "Close"
    /\ lastOp.io = "ok"
    /\ fileState = "closed"
    /\ ret = [kind |-> "bool", ok |-> FALSE]
    /\ DOMAIN keyDir # {}

\* C19 (as claimed): any two distinct keys of the key directory describe
\* byte ranges [Position, Position + TotalSize) that do not overlap, also
\* after the write cursor has wrapped around.
C19_DisjointLiveRecords ==
    \A k1 \in DOMAIN keyDir : \A k2 \in DOMAIN keyDir \ {k1} :
        \/ keyDir[k1].Position + keyDir[k1].TotalSize <= keyDir[k2].Position
        \/ keyDir[k2].Position + keyDir[k2].TotalSize <= keyDir[k1].Position

====
